---- MODULE Spec2Model ----
(***************************************************************************)
(* Token-bucket rate limiter of internal/middleware/ratelimiter.go:        *)
(* RateLimiter (rate, bucketSize, clients, mu, cleanup), its Allow method  *)
(* called from concurrent request goroutines, the cleanup goroutine that   *)
(* runs cleanupStale on every tick of the cleanup ticker, and Shutdown.    *)
(*                                                                         *)
(* Time is counted in clock units of 15 minutes, so that the 30 minutes    *)
(* passed to cleanupStale are MaxAge = 2 units.  Token counts (float64 in  *)
(* the code) are exact fixed-point numbers: a stored value v stands for    *)
(* v / Scale tokens, and the rate field holds rate / Scale tokens per      *)
(* clock unit.  One whole token is Scale.                                  *)
(*                                                                         *)
(* Around the limiter: RateLimitMiddleware, the handler chain that main    *)
(* (cmd/server/main.go) gives to the HTTP server, and getClientIP          *)
(* (internal/middleware/logger.go), which derives the client key from the  *)
(* proxy headers and the peer address of a request.                        *)
(*                                                                         *)
(* Behind the limiter: the request handlers taken one at a time on one     *)
(* request, SanitizeMiddleware (internal/middleware/sanitiser.go),         *)
(* LoggingMiddleware, api.ValidationHandler (internal/api/handler.go) and  *)
(* luhn.ValidateCard with isLuhnValid and identifyCardNetwork              *)
(* (internal/luhn/validator.go).                                           *)
(***************************************************************************)
EXTENDS Integers, Sequences, FiniteSets, TLC

\* ---- bounds of the model -------------------------------------------------
NumThreads    == 2      \* request goroutines calling Allow concurrently
NumKeys       == 2      \* distinct client keys (ip strings)
MaxTime       == 3      \* the clock runs from 0 to MaxTime
MaxCalls      == 4      \* Allow calls made in one behaviour
MaxBucketSize == 2      \* bucketSize is drawn from 1..MaxBucketSize
MaxRate       == 2      \* rate is drawn from 1..MaxRate (in 1/Scale tokens per unit)
Scale         == 2      \* fixed-point resolution of a token
MaxHdrLen     == 2      \* longest proxy header value given to getClientIP
MaxShortLen   == 3      \* longest card number of which every string is tried
MaxRepeat     == 2      \* calls of ValidateCard on one card number
MaxFieldLen   == 1      \* longest card number of which the sanitizer gets every string

\* ---- program constant ----------------------------------------------------
MaxAge == 2             \* 30 * time.Minute, in clock units of 15 minutes

\* ---- constants of the HTTP boundary --------------------------------------
EmptyKey == 0                      \* the key "" (getClientIP found nothing)
StatusTooManyRequests == 429       \* http.StatusTooManyRequests
StatusInternalServerError == 500   \* http.StatusInternalServerError

Threads == 1..NumThreads
Keys    == 1..NumKeys
Sweeper == NumThreads + 1      \* identity of the cleanup goroutine as lock holder

VARIABLES
    rate,            \* RateLimiter.rate
    bucketSize,      \* RateLimiter.bucketSize
    clients,         \* RateLimiter.clients: key -> [tokens, lastRefill]
    mu,              \* RateLimiter.mu: 0 when unlocked, else the holder
    cleanupRunning,  \* the cleanup ticker has not been stopped
    cleanupC,        \* ticks buffered in the ticker's channel (capacity 1)
    now,             \* time.Now()
    pc,              \* position of each request goroutine inside Allow
    ip,              \* argument of the Allow call each goroutine is in
    exists,          \* the local `exists` of each goroutine (line 62)
    ret,             \* value Allow is about to return
    spc,             \* position of the cleanup goroutine
    log,             \* history: per key, the Allow calls decided so far
    resp,            \* per request goroutine: the request being served by
                     \* RateLimitMiddleware and what the middleware did with it
    httpReq,         \* getClientIP's argument r: its two proxy headers and
                     \* its RemoteAddr, each a sequence of characters
    clientKey,       \* the string getClientIP returned for httpReq
    peerKeys,        \* history: RemoteAddr -> key, of the requests without
                     \* proxy headers that getClientIP has been called on
    cardReq,         \* the validation request under consideration: method,
                     \* Content-Type and the fields of its JSON body
    cardInfos,       \* the CardInfo values luhn.ValidateCard has returned
                     \* for cardReq, one per call
    apiResp,         \* what api.ValidationHandler did with cardReq
    sanResp,         \* what SanitizeMiddleware did with cardReq
    logResp          \* what LoggingMiddleware did with cardReq

cardVars == <<cardReq, cardInfos, apiResp, sanResp, logResp>>

keyVars == <<httpReq, clientKey, peerKeys, cardVars>>

vars == <<rate, bucketSize, clients, mu, cleanupRunning, cleanupC, now,
          pc, ip, exists, ret, spc, log, resp, httpReq, clientKey, peerKeys,
          cardReq, cardInfos, apiResp, sanResp, logResp>>

\* ---- helpers -------------------------------------------------------------
min(a, b) == IF a < b THEN a ELSE b

Started == Cardinality({t \in Threads : pc[t] # "idle"})

Decided == LET RECURSIVE Sum(_)
               Sum(S) == IF S = {} THEN 0
                         ELSE LET k == CHOOSE x \in S : TRUE
                              IN  Len(log[k]) + Sum(S \ {k})
           IN  Sum(Keys)

\* ---- the bucket operations of Allow --------------------------------------
\* A new bucket: one token already used for the creating request.
NewBucketFull  == [tokens |-> bucketSize * Scale, lastRefill |-> now]
NewBucketEmpty == [tokens |-> 0, lastRefill |-> now]
NewBucketUnstamped == [tokens |-> bucketSize * Scale - Scale, lastRefill |-> 0]
NewBucket == [tokens |-> bucketSize * Scale - Scale, lastRefill |-> now]

\* Tokens of bucket b after the refill for the time since b.lastRefill.
RefillNoClamp(b)   == b.tokens + (now - b.lastRefill) * rate
RefillNoElapsed(b) == min(bucketSize * Scale, b.tokens)
RefillRateOnly(b)  == min(bucketSize * Scale, (now - b.lastRefill) * rate)
Refill(b) == min(bucketSize * Scale, b.tokens + (now - b.lastRefill) * rate)

\* Whether a bucket with tok tokens can pay for one request.
EnoughStrict(tok) == tok > Scale
EnoughAny(tok)    == tok >= 0
Enough(tok) == tok >= Scale

\* The bucket after an admitted request: refilled to tok, one token taken.
Admitted(tok) == [tokens |-> tok - Scale, lastRefill |-> now]

\* The bucket after a denied request: refilled to tok, nothing taken.
RejectedDrained(tok) == [tokens |-> 0, lastRefill |-> now]
Rejected(tok) == [tokens |-> tok, lastRefill |-> now]

\* rl.clients[k] = b on the map store.
PutShared(store, k, b) == [x \in DOMAIN store \cup {k} |-> b]
Put(store, k, b) == [x \in DOMAIN store \cup {k} |-> IF x = k THEN b ELSE store[x]]

\* cleanupStale's test on one bucket.
StaleInclusive(b) == b.lastRefill <= now - MaxAge
StaleLate(b)      == b.lastRefill < now - MaxAge - MaxAge
StaleEarly(b)     == b.lastRefill < now
Stale(b) == b.lastRefill < now - MaxAge

\* ---- RateLimitMiddleware: what one request has led to ---------------------
\* req: the client key getClientIP derived from the request; allow: calls of
\* rl.Allow; status, ctype, body: what the middleware wrote to the response
\* (status 0: nothing); next: calls of next.ServeHTTP; fwd: the request
\* handed to next.
\* path: the URL path of the request, as the sequence of its segments ("/"
\* is the empty sequence); stages: the handlers of the server's chain the
\* request has entered, in order.
NoResp == [req |-> EmptyKey, allow |-> 0, status |-> 0, ctype |-> "", body |-> "",
           next |-> 0, fwd |-> EmptyKey, path |-> << >>, stages |-> << >>]

\* if ip == ""
UnresolvedNever(key) == FALSE
Unresolved(key) == key = EmptyKey

\* if !rl.Allow(ip)
DeniedNever(ok) == FALSE
Denied(ok) == ~ok

\* http.Error(w, "Unable to determine client IP", 500)
ErrorResp(key) ==
    [NoResp EXCEPT !.req = key,
                   !.status = StatusInternalServerError,
                   !.ctype = "text/plain; charset=utf-8",
                   !.body = "Unable to determine client IP"]

\* The 429 answer: header, status, JSON body.
LimitResp(r) ==
    [r EXCEPT !.status = StatusTooManyRequests,
              !.ctype = "application/json",
              !.body = "{\"error\":\"Rate limit exceeded, please try again later\"}"]

\* next.ServeHTTP(w, r)
PassResp(r) == [r EXCEPT !.next = @ + 1, !.fwd = r.req]

\* ---- getClientIP ----------------------------------------------------------
\* A string is a sequence of one-character strings.  A header that is not
\* set reads as the empty string, as r.Header.Get returns it.
HdrChars  == {"a", ",", " "}
HdrValues == UNION {[1..n -> HdrChars] : n \in 0..MaxHdrLen}

\* r.RemoteAddr as the HTTP server sets it: host:port for an IPv4 peer,
\* [host]:port for an IPv6 peer (the host then holds colons itself).
PeerHosts == {<<"a">>, <<"b">>, <<":", ":", "a">>, <<":", ":", "b">>}
PeerPorts == {<<"8">>}
JoinHostPort(host, port) ==
    IF \E i \in 1..Len(host) : host[i] = ":"
    THEN <<"[">> \o host \o <<"]", ":">> \o port
    ELSE host \o <<":">> \o port
RemoteAddrs == {JoinHostPort(h, p) : h \in PeerHosts, p \in PeerPorts}

Requests  == [xff : HdrValues, xreal : HdrValues, remote : RemoteAddrs]
NoRequest == [xff |-> << >>, xreal |-> << >>, remote |-> << >>]

\* strings.Index(s, sep) for a one-character sep, counted from 1; 0: absent.
Index(s, sep) ==
    IF \E i \in 1..Len(s) : s[i] = sep
    THEN CHOOSE i \in 1..Len(s) : s[i] = sep /\ \A j \in 1..(i - 1) : s[j] # sep
    ELSE 0

\* strings.Split(s, sep)[0]
SplitFirst(s, sep) ==
    IF Index(s, sep) = 0 THEN s ELSE SubSeq(s, 1, Index(s, sep) - 1)

\* before, _, _ := strings.Cut(s, sep)
CutBefore(s, sep) ==
    IF Index(s, sep) = 0 THEN s ELSE SubSeq(s, 1, Index(s, sep) - 1)

\* The loop over X-Forwarded-For and X-Real-IP, then the fallback.
getClientIP(q) ==
    IF q.xff # << >> THEN SplitFirst(q.xff, ",")
    ELSE IF q.xreal # << >> THEN SplitFirst(q.xreal, ",")
    ELSE CutBefore(q.remote, ":")

\* One call of getClientIP, on request q.
DeriveKey(q) ==
    /\ httpReq' = q
    /\ clientKey' = getClientIP(q)
    /\ peerKeys' =
          IF q.xff = << >> /\ q.xreal = << >>
          THEN [a \in DOMAIN peerKeys \cup {q.remote} |->
                   IF a = q.remote THEN getClientIP(q) ELSE peerKeys[a]]
          ELSE peerKeys
    /\ UNCHANGED <<cardVars, resp, rate, bucketSize, clients, mu, cleanupRunning,
                   cleanupC, now, pc, ip, exists, ret, spc, log>>

\* ---- card validation: internal/luhn ---------------------------------------
\* A card number is a string: a sequence of one-character strings.
DigitSeq   == <<"0", "1", "2", "3", "4", "5", "6", "7", "8", "9">>
DigitChars == {DigitSeq[i] : i \in 1..10}
CardChars  == DigitChars \cup {"-"}

\* r >= '0' && r <= '9'
IsDigit(c) == c \in DigitChars

\* int(r - '0'), for a digit r
DigitVal(c) == (CHOOSE i \in 1..10 : DigitSeq[i] = c) - 1

\* Every string of up to MaxShortLen characters, and, for the network
\* patterns, each of a set of leading digits filled up with zeros to every
\* length from 13 to 19.
ShortNumbers == UNION {[1..n -> CardChars] : n \in 0..MaxShortLen}
Prefixes ==
    {<<"4">>, <<"5", "1">>, <<"2", "2", "2", "1">>, <<"2", "7", "2", "0">>,
     <<"3", "4">>, <<"6", "0", "1", "1">>, <<"6", "4", "4">>,
     <<"6", "2", "2", "1", "2", "6">>, <<"3", "5", "2", "8">>, <<"6", "2">>,
     <<"3", "0", "0">>, <<"6", "0">>, <<"6", "5", "2", "1">>,
     <<"5", "0", "1", "8">>, <<"6", "3", "0", "4">>, <<"9">>}
Pad(p, n)   == [i \in 1..n |-> IF i <= Len(p) THEN p[i] ELSE "0"]
LongNumbers == {Pad(p, n) : p \in Prefixes, n \in 13..19}
CardNumbers == ShortNumbers \cup LongNumbers

\* The value of a field of a JSON object: a string s, a number, or nothing
\* when the object has no such field.
Str(s) == [kind |-> "string", s |-> s]
Num    == [kind |-> "number", s |-> << >>]
Absent == [kind |-> "absent", s |-> << >>]

\* A request to the validation endpoint.  ctype is its Content-Type header;
\* oversize: the body is longer than MaxRequestSize; json: the body parses
\* as a JSON object; card_number, expiry_date and cvv are the fields of
\* these names in that object.
NoCardReq == [method |-> "POST", ctype |-> "application/json",
              oversize |-> FALSE, json |-> TRUE, card_number |-> Str(<< >>),
              expiry_date |-> Absent, cvv |-> Absent]

\* Nothing has been written to the ResponseWriter.
NoAnswer  == [state |-> "none", status |-> 0]
NoCard ==
    /\ cardReq = NoCardReq
    /\ cardInfos = << >>
    /\ apiResp = NoAnswer
    /\ sanResp = NoAnswer
    /\ logResp = NoAnswer

\* cleanCardNumber: the digits of cardNumber, in their order
RECURSIVE cleanCardNumber(_)
cleanCardNumber(cardNumber) ==
    IF cardNumber = << >> THEN << >>
    ELSE (IF IsDigit(Head(cardNumber)) THEN <<Head(cardNumber)>> ELSE << >>)
         \o cleanCardNumber(Tail(cardNumber))

\* isLuhnValid with the doubling counted from the left end whatever the length
isLuhnValidFromLeft(cardNumber) ==
    LET n == Len(cardNumber)
        Term(i) == LET digit == DigitVal(cardNumber[i])
                   IN  IF (i - 1) % 2 = 0
                       THEN (IF 2 * digit > 9 THEN 2 * digit - 9 ELSE 2 * digit)
                       ELSE digit
        RECURSIVE Sum(_)
        Sum(i) == IF i > n THEN 0 ELSE Term(i) + Sum(i + 1)
    IN  n >= 2 /\ Sum(1) % 10 = 0

\* isLuhnValid: index i of the code is position i + 1 here
isLuhnValid(cardNumber) ==
    LET n == Len(cardNumber)
        parity == n % 2
        Term(i) == LET digit == DigitVal(cardNumber[i])
                   IN  IF (i - 1) % 2 = parity
                       THEN (IF 2 * digit > 9 THEN 2 * digit - 9 ELSE 2 * digit)
                       ELSE digit
        RECURSIVE Sum(_)
        Sum(i) == IF i > n THEN 0 ELSE Term(i) + Sum(i + 1)
    IN  n >= 2 /\ Sum(1) % 10 = 0

\* The regular expressions of identifyCardNetwork.  Each is anchored at both
\* ends and made of a choice of leading digits followed by \d{lo,hi}:
\* Shape is the anchors and the \d, Lead a run of fixed leading digits, and
\* In a character class at one position.
Shape(s, lo, hi) == Len(s) \in lo..hi /\ \A i \in 1..Len(s) : IsDigit(s[i])
Lead(s, p)       == SubSeq(s, 1, Len(p)) = p
In(s, i, lo, hi) == DigitVal(s[i]) \in lo..hi

\* patterns: the map from regular expression to network, as the pairs
\* <<network, the expression matches s>>.
patterns(s) ==
    { <<"Visa", Shape(s, 13, 19) /\ Len(s) \in {13, 16, 19} /\ Lead(s, <<"4">>)>>,
      <<"Mastercard", Shape(s, 16, 16) /\ Lead(s, <<"5">>) /\ In(s, 2, 1, 5)>>,
      <<"Mastercard",
        /\ Shape(s, 16, 16)
        /\ Lead(s, <<"2">>)
        /\ \/ Lead(s, <<"2", "2", "2">>) /\ In(s, 4, 1, 9)
           \/ Lead(s, <<"2", "2">>) /\ In(s, 3, 3, 9)
           \/ In(s, 2, 3, 6)
           \/ Lead(s, <<"2", "7">>) /\ In(s, 3, 0, 1)
           \/ Lead(s, <<"2", "7", "2", "0">>)>>,
      <<"American Express",
        Shape(s, 15, 15) /\ Lead(s, <<"3">>) /\ s[2] \in {"4", "7"}>>,
      <<"Discover",
        /\ Shape(s, 16, 19)
        /\ Lead(s, <<"6", "0", "1", "1">>) \/ Lead(s, <<"6", "5">>)>>,
      <<"Discover",
        Shape(s, 16, 19) /\ Lead(s, <<"6", "4">>) /\ In(s, 3, 4, 9)>>,
      <<"Discover",
        \/ /\ Shape(s, 16, 19)
           /\ Lead(s, <<"6", "2", "2">>)
           /\ \/ Lead(s, <<"6", "2", "2", "1", "2">>) /\ In(s, 6, 6, 9)
              \/ Lead(s, <<"6", "2", "2", "1">>) /\ In(s, 5, 3, 9)
              \/ In(s, 4, 2, 9)
        \/ Shape(s, 15, 18) /\ Lead(s, <<"6", "2">>) /\ In(s, 3, 3, 9)
        \/ Shape(s, 15, 18) /\ Lead(s, <<"6">>) /\ In(s, 2, 3, 9)>>,
      <<"JCB",
        /\ Shape(s, 16, 19)
        /\ Lead(s, <<"3", "5">>)
        /\ \/ Lead(s, <<"3", "5", "2">>) /\ In(s, 4, 8, 9)
           \/ In(s, 3, 3, 8)>>,
      <<"UnionPay", Shape(s, 16, 19) /\ Lead(s, <<"6", "2">>)>>,
      <<"Diners Club",
        /\ Shape(s, 14, 19)
        /\ Lead(s, <<"3">>)
        /\ \/ Lead(s, <<"3", "0">>) /\ In(s, 3, 0, 5)
           \/ s[2] \in {"6", "8"}>>,
      <<"RuPay", Shape(s, 16, 16) /\ Lead(s, <<"6", "0">>)>>,
      <<"RuPay", Shape(s, 17, 17) /\ Lead(s, <<"6", "5", "2">>) /\ In(s, 4, 1, 2)>>,
      <<"Maestro",
        /\ Shape(s, 14, 17)
        /\ SubSeq(s, 1, 4) \in
              {<<"5", "0", "1", "8">>, <<"5", "0", "2", "8">>,
               <<"5", "0", "3", "8">>, <<"5", "6", "9", "3">>,
               <<"5", "8", "9", "3">>, <<"6", "3", "0", "4">>,
               <<"6", "7", "5", "9">>, <<"6", "7", "6", "1">>,
               <<"6", "7", "6", "2">>, <<"6", "7", "6", "3">>}>> }

\* identifyCardNetwork: the networks a call may return.  The loop ranges over
\* a Go map, whose iteration order is chosen anew by every range statement:
\* the call returns the network of whichever matching expression the loop
\* meets first, "Unknown" when none matches.
identifyCardNetwork(cardNumber) ==
    LET hits == {p[1] : p \in {q \in patterns(cardNumber) : q[2]}}
    IN  IF hits = {} THEN {"Unknown"} ELSE hits

\* The CardInfo values one call of ValidateCard may return for a card
\* number.  The expiry fields of CardInfo, which depend on the expiry date
\* and the clock only, are left out.
CardInfos(number) ==
    LET cleanedNumber == cleanCardNumber(number)
        result == [Valid |-> FALSE, Network |-> "",
                   CardLength |-> Len(cleanedNumber)]
    IN  IF Len(cleanedNumber) < 2 THEN {result}
        ELSE {[result EXCEPT !.Valid = isLuhnValid(cleanedNumber),
                             !.Network = network] :
                 network \in identifyCardNetwork(cleanedNumber)}

\* One call of luhn.ValidateCard on the card number of cardReq.
ValidateCard ==
    /\ Len(cardInfos) < MaxRepeat
    /\ \E info \in CardInfos(cardReq.card_number.s) :
          cardInfos' = Append(cardInfos, info)
    /\ UNCHANGED <<cardReq, apiResp, sanResp, logResp, httpReq, clientKey,
                   peerKeys, resp, rate, bucketSize, clients, mu,
                   cleanupRunning, cleanupC, now, pc, ip, exists, ret, spc, log>>

\* ---- api.ValidationHandler ------------------------------------------------
\* strings.Repeat("*", n), for n >= 0
Stars(n) == [i \in 1..n |-> "*"]

\* maskCardNumber
maskCardNumber(cardNumber) ==
    IF Len(cardNumber) <= 10 THEN cardNumber
    ELSE SubSeq(cardNumber, 1, 6) \o Stars(Len(cardNumber) - 10)
         \o SubSeq(cardNumber, Len(cardNumber) - 3, Len(cardNumber))

\* What ValidationHandler may do with request q.  A slice expression s[:6]
\* on a string shorter than 6 is a run-time panic: the handler is left at
\* that point and nothing is written.
ValidationHandler(q) ==
    IF q.method \notin {"GET", "POST"}
    THEN {[state |-> "done", status |-> 405, body |-> "Method not allowed"]}
    ELSE IF ~q.json \/ q.card_number.kind = "number"
    THEN {[state |-> "done", status |-> 400, body |-> "Invalid JSON payload"]}
    ELSE IF q.card_number.s = << >>
    THEN {[state |-> "done", status |-> 400, body |-> "Card number is required"]}
    ELSE LET maskedCardNumber == maskCardNumber(q.card_number.s)
         IN  IF Len(maskedCardNumber) < 6
             THEN {[state |-> "panic", status |-> 0, body |-> "none"]}
             ELSE {[state |-> "done", status |-> 200, body |-> cardInfo] :
                      cardInfo \in CardInfos(q.card_number.s)}

\* One request served by ValidationHandler.
ApiServe ==
    /\ apiResp = NoAnswer
    /\ apiResp' \in ValidationHandler(cardReq)
    /\ UNCHANGED <<cardReq, cardInfos, sanResp, logResp, httpReq, clientKey,
                   peerKeys, resp, rate, bucketSize, clients, mu,
                   cleanupRunning, cleanupC, now, pc, ip, exists, ret, spc, log>>

\* ---- middleware.SanitizeMiddleware ----------------------------------------
\* DefaultSanitizationConfig
MaxCardNumberLength == 19
MaxExpiryLength     == 5
MaxCVVLength        == 4

\* The Content-Type headers tried, and those of them for which
\* strings.Contains(strings.ToLower(contentType), "application/json") holds.
ContentTypes == {"application/json", "Application/JSON; charset=utf-8",
                 "text/plain"}
JsonTypes    == {"application/json", "Application/JSON; charset=utf-8"}

\* sanitizeCardNumber that lets every character through
sanitizeCardNumberAll(input) == input

\* sanitizeCardNumber: the digits of input, in their order
sanitizeCardNumber(input) ==
    LET RECURSIVE Kept(_)
        Kept(i) == IF i > Len(input) THEN << >>
                   ELSE (IF IsDigit(input[i]) THEN <<input[i]>> ELSE << >>)
                        \o Kept(i + 1)
    IN  Kept(1)

\* isValidExpiryFormat: ^(0[1-9]|1[0-2])/\d{2}$
isValidExpiryFormat(input) ==
    /\ Len(input) = 5
    /\ \/ input[1] = "0" /\ input[2] \in DigitChars \ {"0"}
       \/ input[1] = "1" /\ input[2] \in {"0", "1", "2"}
    /\ input[3] = "/"
    /\ IsDigit(input[4])
    /\ IsDigit(input[5])

\* isValidCVV: ^\d{3,4}$
isValidCVV(input) ==
    /\ Len(input) \in 3..4
    /\ \A i \in 1..Len(input) : IsDigit(input[i])

\* An answer written by http.Error: next is not called.
Refused(code) == [state |-> "done", status |-> code, fwd |-> FALSE,
                  body |-> [card_number |-> Absent, expiry_date |-> Absent,
                            cvv |-> Absent]]

\* The handler SanitizeMiddleware returns, on request q: the answer it
\* writes itself, or the call of next with the body it has rewritten.
SanitizeMiddleware(q) ==
    IF q.ctype \notin JsonTypes THEN Refused(415)
    ELSE IF q.oversize THEN Refused(413)
    ELSE IF ~q.json THEN Refused(400)
    ELSE LET sanitized == sanitizeCardNumber(q.card_number.s)
         IN  IF /\ q.card_number.kind = "string"
                /\ Len(sanitized) > MaxCardNumberLength
             THEN Refused(400)
             ELSE IF /\ q.expiry_date.kind = "string"
                     /\ \/ ~isValidExpiryFormat(q.expiry_date.s)
                        \/ Len(q.expiry_date.s) > MaxExpiryLength
             THEN Refused(400)
             ELSE IF /\ q.cvv.kind = "string"
                     /\ \/ ~isValidCVV(q.cvv.s)
                        \/ Len(q.cvv.s) > MaxCVVLength
             THEN Refused(400)
             ELSE [state |-> "done", status |-> 0, fwd |-> TRUE,
                   body |-> [card_number |->
                                IF q.card_number.kind = "string"
                                THEN Str(sanitized) ELSE q.card_number,
                             expiry_date |-> q.expiry_date,
                             cvv |-> q.cvv]]

\* One request served by the sanitizing handler.
SanServe ==
    /\ sanResp = NoAnswer
    /\ sanResp' = SanitizeMiddleware(cardReq)
    /\ UNCHANGED <<cardReq, cardInfos, apiResp, logResp, httpReq, clientKey,
                   peerKeys, resp, rate, bucketSize, clients, mu,
                   cleanupRunning, cleanupC, now, pc, ip, exists, ret, spc, log>>

\* ---- middleware.LoggingMiddleware -----------------------------------------
\* The request_body field of the log line; has: the line has such a field.
NoLogged == [has |-> FALSE, card_number |-> Absent, cvv |-> Absent]

\* The handler LoggingMiddleware returns, on request q: the body it logs
\* with "Request started" and the number of calls of next it makes.
\* strings.Repeat with a negative count is a run-time panic: the handler is
\* left at that point, nothing is logged and next is not called.
LoggingMiddleware(q) ==
    IF q.ctype = "application/json" /\ q.json
    THEN LET cardNum == q.card_number.s
             n == Len(cardNum)
         IN  IF q.card_number.kind = "string" /\ n > 6 /\ n - 10 < 0
             THEN [state |-> "panic", next |-> 0, logged |-> NoLogged]
             ELSE [state |-> "done", next |-> 1,
                   logged |->
                      [has |-> TRUE,
                       card_number |->
                          IF q.card_number.kind = "string" /\ n > 6
                          THEN Str(SubSeq(cardNum, 1, 6) \o Stars(n - 10)
                                   \o SubSeq(cardNum, n - 3, n))
                          ELSE q.card_number,
                       cvv |->
                          IF q.cvv.kind = "string"
                          THEN Str(Stars(Len(q.cvv.s))) ELSE q.cvv]]
    ELSE [state |-> "done", next |-> 1, logged |-> NoLogged]

\* One request served by the logging handler.
LogServe ==
    /\ logResp = NoAnswer
    /\ logResp' = LoggingMiddleware(cardReq)
    /\ UNCHANGED <<cardReq, cardInfos, apiResp, sanResp, httpReq, clientKey,
                   peerKeys, resp, rate, bucketSize, clients, mu,
                   cleanupRunning, cleanupC, now, pc, ip, exists, ret, spc, log>>

\* ---- initial state: NewRateLimiter ---------------------------------------
Init ==
    /\ rate \in 1..MaxRate
    /\ bucketSize \in 1..MaxBucketSize
    /\ clients = << >>
    /\ mu = 0
    /\ cleanupRunning = TRUE
    /\ cleanupC = 0
    /\ now = 0
    /\ pc = [t \in Threads |-> "idle"]
    /\ ip = [t \in Threads |-> 1]
    /\ exists = [t \in Threads |-> FALSE]
    /\ ret = [t \in Threads |-> FALSE]
    /\ spc = "recv"
    /\ log = [k \in Keys |-> << >>]
    /\ resp = [t \in Threads |-> NoResp]
    /\ httpReq = NoRequest
    /\ clientKey = << >>
    /\ peerKeys = << >>
    /\ NoCard

\* NewRateLimiter(r, b, cleanupInterval): the arguments are stored as they
\* come, the store is empty, the ticker runs and the cleanup goroutine waits
\* for its first tick.
NewRateLimiter(r, b) ==
    /\ rate = r
    /\ bucketSize = b
    /\ clients = << >>
    /\ mu = 0
    /\ cleanupRunning = TRUE
    /\ cleanupC = 0
    /\ now = 0
    /\ pc = [t \in Threads |-> "idle"]
    /\ ip = [t \in Threads |-> 1]
    /\ exists = [t \in Threads |-> FALSE]
    /\ ret = [t \in Threads |-> FALSE]
    /\ spc = "recv"
    /\ log = [k \in Keys |-> << >>]
    /\ resp = [t \in Threads |-> NoResp]
    /\ httpReq = NoRequest
    /\ clientKey = << >>
    /\ peerKeys = << >>
    /\ NoCard

\* The limiter built from any arguments, also a rate or a bucket size that
\* is zero or negative.
InitNew == \E r \in -1..1 : \E b \in -1..1 : NewRateLimiter(r, b)

\* The limiter at the return of a Shutdown called before any request: the
\* ticker is stopped, and a tick it sent before may still be in its channel.
InitDown ==
    /\ rate \in 1..MaxRate
    /\ bucketSize \in 1..MaxBucketSize
    /\ clients = << >>
    /\ mu = 0
    /\ cleanupRunning = FALSE
    /\ cleanupC \in 0..1
    /\ now = 0
    /\ pc = [t \in Threads |-> "idle"]
    /\ ip = [t \in Threads |-> 1]
    /\ exists = [t \in Threads |-> FALSE]
    /\ ret = [t \in Threads |-> FALSE]
    /\ spc = "recv"
    /\ log = [k \in Keys |-> << >>]
    /\ resp = [t \in Threads |-> NoResp]
    /\ httpReq = NoRequest
    /\ clientKey = << >>
    /\ peerKeys = << >>
    /\ NoCard

\* ---- the clock -----------------------------------------------------------
Tick ==
    /\ now < MaxTime
    /\ now' = now + 1
    /\ UNCHANGED <<keyVars, resp, rate, bucketSize, clients, mu, cleanupRunning, cleanupC,
                   pc, ip, exists, ret, spc, log>>

\* ---- Allow ---------------------------------------------------------------
\* A request goroutine enters Allow(k) and waits at rl.mu.Lock().
AllowCall(t, k) ==
    /\ pc[t] = "idle"
    /\ Started + Decided < MaxCalls
    /\ pc' = [pc EXCEPT ![t] = "lock"]
    /\ ip' = [ip EXCEPT ![t] = k]
    /\ UNCHANGED <<keyVars, resp, rate, bucketSize, clients, mu, cleanupRunning, cleanupC,
                   now, exists, ret, spc, log>>

LockIgnored == TRUE
LockFree == mu = 0

\* rl.mu.Lock() returns.
AllowLockNoWait(t) ==
    /\ pc[t] = "lock"
    /\ mu' = t
    /\ pc' = [pc EXCEPT ![t] = "lookup"]
    /\ UNCHANGED <<keyVars, resp, rate, bucketSize, clients, cleanupRunning, cleanupC,
                   now, ip, exists, ret, spc, log>>

AllowLock(t) ==
    /\ pc[t] = "lock"
    /\ LockFree
    /\ mu' = t
    /\ pc' = [pc EXCEPT ![t] = "lookup"]
    /\ UNCHANGED <<keyVars, resp, rate, bucketSize, clients, cleanupRunning, cleanupC,
                   now, ip, exists, ret, spc, log>>

\* b, exists := rl.clients[ip]
AllowLookup(t) ==
    /\ pc[t] = "lookup"
    /\ exists' = [exists EXCEPT ![t] = ip[t] \in DOMAIN clients]
    /\ pc' = [pc EXCEPT ![t] = "update"]
    /\ UNCHANGED <<keyVars, resp, rate, bucketSize, clients, mu, cleanupRunning, cleanupC,
                   now, ip, ret, spc, log>>

\* Number of other goroutines inside Allow for the same key, not yet decided.
Waiting(t) ==
    Cardinality({u \in Threads \ {t} :
                    pc[u] \in {"lock", "lookup", "update"} /\ ip[u] = ip[t]})

\* History entry of one decided call: the time, the result, whether the call
\* created the bucket, the tokens left, and (for a creating call) how many
\* other callers of the same key it raced with.
Entry(t, ok, fresh, left) ==
    [at |-> now, ok |-> ok, fresh |-> fresh, left |-> left,
     conc |-> IF fresh THEN Waiting(t) ELSE 0]

\* The rest of Allow's body: create the bucket, or refill it and decide.
AllowUpdate(t) ==
    /\ pc[t] = "update"
    /\ LET k == ip[t] IN
       IF ~exists[t]
       THEN /\ clients' = Put(clients, k, NewBucket)
            /\ ret' = [ret EXCEPT ![t] = TRUE]
            /\ log' = [log EXCEPT ![k] =
                          Append(@, Entry(t, TRUE, TRUE, NewBucket.tokens))]
       ELSE LET tok == Refill(clients[k]) IN
            IF Enough(tok)
            THEN /\ clients' = Put(clients, k, Admitted(tok))
                 /\ ret' = [ret EXCEPT ![t] = TRUE]
                 /\ log' = [log EXCEPT ![k] =
                               Append(@, Entry(t, TRUE, FALSE, Admitted(tok).tokens))]
            ELSE /\ clients' = Put(clients, k, Rejected(tok))
                 /\ ret' = [ret EXCEPT ![t] = FALSE]
                 /\ log' = [log EXCEPT ![k] =
                               Append(@, Entry(t, FALSE, FALSE, Rejected(tok).tokens))]
    /\ pc' = [pc EXCEPT ![t] = "unlock"]
    /\ UNCHANGED <<keyVars, resp, rate, bucketSize, mu, cleanupRunning, cleanupC, now,
                   ip, exists, spc>>

\* The deferred rl.mu.Unlock(), and the return to the caller.
AllowReturnNoUnlock(t) ==
    /\ pc[t] = "unlock"
    /\ pc' = [pc EXCEPT ![t] = "idle"]
    /\ exists' = [exists EXCEPT ![t] = FALSE]
    /\ ret' = [ret EXCEPT ![t] = FALSE]
    /\ ip' = [ip EXCEPT ![t] = 1]
    /\ UNCHANGED <<keyVars, resp, rate, bucketSize, clients, mu, cleanupRunning, cleanupC,
                   now, spc, log>>

AllowReturn(t) ==
    /\ pc[t] = "unlock"
    /\ mu' = 0
    /\ pc' = [pc EXCEPT ![t] = "idle"]
    /\ exists' = [exists EXCEPT ![t] = FALSE]
    /\ ret' = [ret EXCEPT ![t] = FALSE]
    /\ ip' = [ip EXCEPT ![t] = 1]
    /\ UNCHANGED <<keyVars, resp, rate, bucketSize, clients, cleanupRunning, cleanupC,
                   now, spc, log>>

\* ---- RateLimitMiddleware -------------------------------------------------
\* The handler starts on a request whose client key is key: it answers 500
\* when the key is empty, and calls rl.Allow(key) otherwise.
MwServe(t, key) ==
    /\ pc[t] = "idle"
    /\ Started + Decided < MaxCalls
    /\ IF Unresolved(key)
       THEN /\ resp' = [resp EXCEPT ![t] = ErrorResp(key)]
            /\ pc' = [pc EXCEPT ![t] = "served"]
            /\ ip' = ip
       ELSE /\ resp' = [resp EXCEPT ![t] = [NoResp EXCEPT !.req = key, !.allow = 1]]
            /\ pc' = [pc EXCEPT ![t] = "lock"]
            /\ ip' = [ip EXCEPT ![t] = key]
    /\ UNCHANGED <<keyVars, rate, bucketSize, clients, mu, cleanupRunning, cleanupC,
                   now, exists, ret, spc, log>>

\* rl.Allow returns (with its deferred Unlock) and the handler acts on the
\* result: the 429 answer, or the call of the next handler.
MwDecide(t) ==
    /\ pc[t] = "unlock"
    /\ mu' = 0
    /\ pc' = [pc EXCEPT ![t] = "served"]
    /\ exists' = [exists EXCEPT ![t] = FALSE]
    /\ ret' = [ret EXCEPT ![t] = FALSE]
    /\ ip' = [ip EXCEPT ![t] = 1]
    /\ resp' = [resp EXCEPT ![t] =
                   IF Denied(ret[t]) THEN LimitResp(@) ELSE PassResp(@)]
    /\ UNCHANGED <<keyVars, rate, bucketSize, clients, cleanupRunning, cleanupC,
                   now, spc, log>>

\* The handler returns; the goroutine is free for the next request.
MwDone(t) ==
    /\ pc[t] = "served"
    /\ pc' = [pc EXCEPT ![t] = "idle"]
    /\ resp' = [resp EXCEPT ![t] = NoResp]
    /\ UNCHANGED <<keyVars, rate, bucketSize, clients, mu, cleanupRunning, cleanupC,
                   now, ip, exists, ret, spc, log>>

\* ---- the server's handler chain (cmd/server/main.go) ----------------------
\* "/validate", a file under "/static/", "/" and a path nothing is
\* registered for.
Paths == {<<"validate">>, <<"static", "app.js">>, << >>, <<"missing">>}

\* A handler value: its middleware layers from the outside in, then the
\* handler they wrap.
\* handler := middleware.LoggingMiddleware(mux)
LoggedMux == <<"LoggingMiddleware", "mux">>
\* handler = rateLimiter.RateLimitMiddleware(apiHandler)
RateLimited == <<"RateLimitMiddleware", "apiHandler">>

\* server.Handler: the value of handler (rateLimitedHandler in the older
\* main) when the server is created, i.e. the one assigned last.
ServerHandlerUnlimited == <<"apiHandler">>
ServerHandler == RateLimited

\* The handler mux picks for a path: the exact pattern "/validate", the
\* subtree "/static/", and "/" for everything else, whose handler serves
\* index.html for "/" itself and answers 404 otherwise.
MuxRoute(path) ==
    IF path = <<"validate">> THEN "ValidationHandler"
    ELSE IF Len(path) >= 1 /\ path[1] = "static" THEN "FileServer"
    ELSE IF path = << >> THEN "ServeFile"
    ELSE "NotFound"

\* The handlers apiHandler runs: the sanitizer, and ValidationHandler behind
\* it when the sanitizer accepts the request (clean), for "/validate"; mux
\* for every other path.
ApiHandler(path, clean) ==
    IF path = <<"validate">>
    THEN <<"apiHandler", "SanitizeMiddleware">>
            \o (IF clean THEN <<"ValidationHandler">> ELSE << >>)
    ELSE <<"apiHandler", "mux", MuxRoute(path)>>

\* The handlers entered when chain serves a request that every middleware
\* layer of chain lets through.
RECURSIVE Through(_, _, _)
Through(chain, path, clean) ==
    IF chain = << >> THEN << >>
    ELSE IF Head(chain) = "apiHandler" THEN ApiHandler(path, clean)
    ELSE IF Head(chain) = "mux" THEN <<"mux", MuxRoute(path)>>
    ELSE <<Head(chain)>> \o Through(Tail(chain), path, clean)

\* Position of the rate limiter in a chain; 0 when it is not in it.
LimiterAt(chain) ==
    IF \E i \in 1..Len(chain) : chain[i] = "RateLimitMiddleware"
    THEN CHOOSE i \in 1..Len(chain) : chain[i] = "RateLimitMiddleware"
    ELSE 0

\* The server hands a request for path, with client key key, to
\* server.Handler: the layers outside the rate limiter run, then the rate
\* limiter answers 500 or calls rl.Allow(key).  A chain without the rate
\* limiter serves the request at once.
SrvServe(t, key, path) ==
    /\ pc[t] = "idle"
    /\ Started + Decided < MaxCalls
    /\ LET at == LimiterAt(ServerHandler) IN
       IF at = 0
       THEN /\ \E clean \in BOOLEAN :
                  resp' = [resp EXCEPT ![t] =
                              [NoResp EXCEPT !.req = key, !.path = path,
                                             !.stages = Through(ServerHandler, path, clean)]]
            /\ pc' = [pc EXCEPT ![t] = "served"]
            /\ ip' = ip
       ELSE IF Unresolved(key)
       THEN /\ resp' = [resp EXCEPT ![t] =
                           [ErrorResp(key) EXCEPT !.path = path,
                                                  !.stages = SubSeq(ServerHandler, 1, at)]]
            /\ pc' = [pc EXCEPT ![t] = "served"]
            /\ ip' = ip
       ELSE /\ resp' = [resp EXCEPT ![t] =
                           [NoResp EXCEPT !.req = key, !.allow = 1, !.path = path,
                                          !.stages = SubSeq(ServerHandler, 1, at)]]
            /\ pc' = [pc EXCEPT ![t] = "lock"]
            /\ ip' = [ip EXCEPT ![t] = key]
    /\ UNCHANGED <<keyVars, rate, bucketSize, clients, mu, cleanupRunning, cleanupC,
                   now, exists, ret, spc, log>>

\* rl.Allow returns and the rate limiter acts on the result: the 429
\* answer, or next.ServeHTTP, which runs the rest of the chain before it
\* returns.
SrvDecide(t) ==
    /\ pc[t] = "unlock"
    /\ mu' = 0
    /\ pc' = [pc EXCEPT ![t] = "served"]
    /\ exists' = [exists EXCEPT ![t] = FALSE]
    /\ ret' = [ret EXCEPT ![t] = FALSE]
    /\ ip' = [ip EXCEPT ![t] = 1]
    /\ IF Denied(ret[t])
       THEN resp' = [resp EXCEPT ![t] = LimitResp(@)]
       ELSE \E clean \in BOOLEAN :
               resp' = [resp EXCEPT ![t] =
                   [PassResp(@) EXCEPT !.stages =
                       @ \o Through(SubSeq(ServerHandler, LimiterAt(ServerHandler) + 1,
                                           Len(ServerHandler)),
                                    resp[t].path, clean)]]
    /\ UNCHANGED <<keyVars, rate, bucketSize, clients, cleanupRunning, cleanupC,
                   now, spc, log>>

\* ---- the cleanup ticker and goroutine ------------------------------------
\* The ticker delivers a tick; a tick is dropped when the channel is full.
\* cleanupInterval is a constructor argument of any length, so a tick may
\* arrive at any clock reading while the ticker runs.
TickerFire ==
    /\ cleanupRunning
    /\ cleanupC = 0
    /\ cleanupC' = 1
    /\ UNCHANGED <<keyVars, resp, rate, bucketSize, clients, mu, cleanupRunning, now,
                   pc, ip, exists, ret, spc, log>>

\* for range limiter.cleanup.C: receive one tick and call cleanupStale.
SweepRecv ==
    /\ spc = "recv"
    /\ cleanupC = 1
    /\ cleanupC' = 0
    /\ spc' = "lock"
    /\ UNCHANGED <<keyVars, resp, rate, bucketSize, clients, mu, cleanupRunning, now,
                   pc, ip, exists, ret, log>>

SweepLockNoWait ==
    /\ spc = "lock"
    /\ mu' = Sweeper
    /\ spc' = "sweep"
    /\ UNCHANGED <<keyVars, resp, rate, bucketSize, clients, cleanupRunning, cleanupC, now,
                   pc, ip, exists, ret, log>>

SweepLock ==
    /\ spc = "lock"
    /\ LockFree
    /\ mu' = Sweeper
    /\ spc' = "sweep"
    /\ UNCHANGED <<keyVars, resp, rate, bucketSize, clients, cleanupRunning, cleanupC, now,
                   pc, ip, exists, ret, log>>

\* The store after cleanupStale's loop.
Swept == [k \in {x \in DOMAIN clients : ~Stale(clients[x])} |-> clients[k]]

SweepBody ==
    /\ spc = "sweep"
    /\ clients' = Swept
    /\ spc' = "unlock"
    /\ UNCHANGED <<keyVars, resp, rate, bucketSize, mu, cleanupRunning, cleanupC, now,
                   pc, ip, exists, ret, log>>

SweepUnlock ==
    /\ spc = "unlock"
    /\ mu' = 0
    /\ spc' = "recv"
    /\ UNCHANGED <<keyVars, resp, rate, bucketSize, clients, cleanupRunning, cleanupC, now,
                   pc, ip, exists, ret, log>>

\* ---- Shutdown ------------------------------------------------------------
\* rl.cleanup.Stop(): no more ticks are sent; the channel is not closed and a
\* tick already in it stays there.  Stopping a stopped ticker changes nothing.
ShutdownClears ==
    /\ cleanupRunning' = FALSE
    /\ clients' = << >>
    /\ UNCHANGED <<keyVars, resp, rate, bucketSize, mu, cleanupC, now,
                   pc, ip, exists, ret, spc, log>>

Shutdown ==
    /\ cleanupRunning' = FALSE
    /\ UNCHANGED <<keyVars, resp, rate, bucketSize, clients, mu, cleanupC, now,
                   pc, ip, exists, ret, spc, log>>

\* ---- specification -------------------------------------------------------
Next ==
    \/ Tick
    \/ \E t \in Threads, k \in Keys : AllowCall(t, k)
    \/ \E t \in Threads : AllowLock(t)
    \/ \E t \in Threads : AllowLookup(t)
    \/ \E t \in Threads : AllowUpdate(t)
    \/ \E t \in Threads : AllowReturn(t)
    \/ TickerFire
    \/ SweepRecv
    \/ SweepLock
    \/ SweepBody
    \/ SweepUnlock
    \/ Shutdown

Spec == Init /\ [][Next]_vars

\* The limiter behind its middleware: every Allow call comes from a request.
NextMw ==
    \/ Tick
    \/ \E t \in Threads, key \in Keys \cup {EmptyKey} : MwServe(t, key)
    \/ \E t \in Threads : AllowLock(t)
    \/ \E t \in Threads : AllowLookup(t)
    \/ \E t \in Threads : AllowUpdate(t)
    \/ \E t \in Threads : MwDecide(t)
    \/ \E t \in Threads : MwDone(t)
    \/ TickerFire
    \/ SweepRecv
    \/ SweepLock
    \/ SweepBody
    \/ SweepUnlock
    \/ Shutdown

SpecMw == Init /\ [][NextMw]_vars

\* The same program under the scheduling the Go runtime gives it: time
\* passes, a running ticker delivers its tick, and every goroutine that can
\* take its next step takes it (a goroutine waiting for rl.mu gets it when
\* the mutex keeps being released: sync.Mutex hands over to starved waiters).
Fairness ==
    /\ WF_vars(Tick)
    /\ WF_vars(TickerFire)
    /\ WF_vars(SweepRecv)
    /\ SF_vars(SweepLock)
    /\ WF_vars(SweepBody)
    /\ WF_vars(SweepUnlock)
    /\ \A t \in Threads :
          /\ SF_vars(AllowLock(t))
          /\ WF_vars(AllowLookup(t))
          /\ WF_vars(AllowUpdate(t))
          /\ WF_vars(AllowReturn(t))

\* Progress does not depend on the configuration: the fair behaviours are
\* explored for the smallest bucket and the slowest rate.
InitFair == Init /\ rate = 1 /\ bucketSize = 1

SpecFair == InitFair /\ [][Next]_vars /\ Fairness

\* The limiter inside the server main builds: every request enters
\* server.Handler.  The requests come from one client, or carry no key.
SrvKeys == {CHOOSE k \in Keys : TRUE, EmptyKey}

NextSrv ==
    \/ Tick
    \/ \E t \in Threads, key \in SrvKeys, path \in Paths :
          SrvServe(t, key, path)
    \/ \E t \in Threads : AllowLock(t)
    \/ \E t \in Threads : AllowLookup(t)
    \/ \E t \in Threads : AllowUpdate(t)
    \/ \E t \in Threads : SrvDecide(t)
    \/ \E t \in Threads : MwDone(t)
    \/ TickerFire
    \/ SweepRecv
    \/ SweepLock
    \/ SweepBody
    \/ SweepUnlock
    \/ Shutdown

SpecSrv == InitFair /\ [][NextSrv]_vars

\* getClientIP alone, called on any request in any order.
NextKey == \E q \in Requests : DeriveKey(q)

SpecKey == InitFair /\ [][NextKey]_vars

\* The limiter of any construction, used as Spec uses it.
SpecNew == InitNew /\ [][Next]_vars

\* The limiter from the return of Shutdown on: the steps of Spec that a
\* stopped ticker leaves possible.
NextDown ==
    \/ Tick
    \/ \E t \in Threads, k \in Keys : AllowCall(t, k)
    \/ \E t \in Threads : AllowLock(t)
    \/ \E t \in Threads : AllowLookup(t)
    \/ \E t \in Threads : AllowUpdate(t)
    \/ \E t \in Threads : AllowReturn(t)
    \/ SweepRecv
    \/ SweepLock
    \/ SweepBody
    \/ SweepUnlock
    \/ Shutdown

SpecDown == InitDown /\ [][NextDown]_vars

\* ---- the card validation on its own ---------------------------------------
\* The limiter at rest, while a property of the card validation is explored.
LimiterIdle ==
    /\ rate = 1
    /\ bucketSize = 1
    /\ clients = << >>
    /\ mu = 0
    /\ cleanupRunning = TRUE
    /\ cleanupC = 0
    /\ now = 0
    /\ pc = [t \in Threads |-> "idle"]
    /\ ip = [t \in Threads |-> 1]
    /\ exists = [t \in Threads |-> FALSE]
    /\ ret = [t \in Threads |-> FALSE]
    /\ spc = "recv"
    /\ log = [k \in Keys |-> << >>]
    /\ resp = [t \in Threads |-> NoResp]
    /\ httpReq = NoRequest
    /\ clientKey = << >>
    /\ peerKeys = << >>

\* A request drawn from S, and nothing done with it yet.
InitCard(S) ==
    /\ LimiterIdle
    /\ cardReq \in S
    /\ cardInfos = << >>
    /\ apiResp = NoAnswer
    /\ sanResp = NoAnswer
    /\ logResp = NoAnswer

\* luhn.ValidateCard, called up to MaxRepeat times on one card number.
LuhnRequests == {[NoCardReq EXCEPT !.card_number = Str(n)] : n \in CardNumbers}

InitLuhn == InitCard(LuhnRequests)

NextLuhn == ValidateCard

SpecLuhn == InitLuhn /\ [][NextLuhn]_vars

\* api.ValidationHandler, called once on a request of any method, with a
\* body that parses or not, and a card number of any of the lengths 0..19.
MidNumbers  == {Pad(<<"4">>, n) : n \in 4..12}
ApiRequests ==
    {[NoCardReq EXCEPT !.method = m, !.json = j, !.card_number = c] :
        m \in {"GET", "POST", "PUT"}, j \in BOOLEAN,
        c \in {Str(n) : n \in CardNumbers \cup MidNumbers} \cup {Num, Absent}}

InitApi == InitCard(ApiRequests)

NextApi == ApiServe

SpecApi == InitApi /\ [][NextApi]_vars

\* SanitizeMiddleware, called once on a request of any content type and
\* size; the card numbers have up to MaxFieldLen characters or 18 to 21
\* digits, written with and without a dash after every fourth.
Dashed(s) ==
    [j \in 1..(Len(s) + (Len(s) - 1) \div 4) |->
        IF j % 5 = 0 THEN "-" ELSE s[j - j \div 5]]
SanNumbers ==
    UNION {[1..n -> CardChars] : n \in 0..MaxFieldLen}
    \cup {Pad(<<"4">>, n) : n \in 18..21}
    \cup {Dashed(Pad(<<"4">>, n)) : n \in 18..21}
ExpiryDates ==
    {Absent, Num, Str(<< >>), Str(<<"1", "2", "/", "2", "5">>),
     Str(<<"0", "0", "/", "2", "5">>), Str(<<"1", "3", "/", "2", "5">>),
     Str(<<"1", "/", "2", "5">>), Str(<<"1", "2", "/", "2", "5", "0">>)}
CVVs ==
    {Absent, Num, Str(<< >>), Str(<<"1", "2">>), Str(<<"1", "2", "3">>),
     Str(<<"1", "2", "3", "4">>), Str(<<"1", "2", "3", "4", "5">>),
     Str(<<"1", "-", "3">>)}
SanRequests ==
    {[NoCardReq EXCEPT !.ctype = t, !.oversize = o, !.json = j,
                       !.card_number = c, !.expiry_date = e, !.cvv = v] :
        t \in ContentTypes, o \in BOOLEAN, j \in BOOLEAN,
        c \in {Str(n) : n \in SanNumbers} \cup {Num, Absent},
        e \in ExpiryDates, v \in CVVs}

InitSan == InitCard(SanRequests)

NextSan == SanServe

SpecSan == InitSan /\ [][NextSan]_vars

\* LoggingMiddleware, called once on a request of any content type; the
\* card numbers have up to MaxFieldLen characters, or are the first n
\* characters of 1234567890123456789 for n from 2 to 19.
Running(n)  == [i \in 1..n |-> DigitSeq[(i % 10) + 1]]
LogNumbers  ==
    UNION {[1..n -> CardChars] : n \in 0..MaxFieldLen}
    \cup {Running(n) : n \in 2..19}
LogRequests ==
    {[NoCardReq EXCEPT !.ctype = t, !.json = j, !.card_number = c, !.cvv = v] :
        t \in ContentTypes, j \in BOOLEAN,
        c \in {Str(n) : n \in LogNumbers} \cup {Num, Absent},
        v \in {Absent, Num, Str(<<"1", "2", "3">>)}}

InitLog == InitCard(LogRequests)

NextLog == LogServe

SpecLog == InitLog /\ [][NextLog]_vars

TypeOK ==
    /\ rate \in 1..MaxRate
    /\ bucketSize \in 1..MaxBucketSize
    /\ DOMAIN clients \subseteq Keys
    /\ mu \in 0..Sweeper
    /\ now \in 0..MaxTime
    /\ cleanupC \in 0..1

\* ---- reading the history -------------------------------------------------
\* Number of admitted calls among entries i..j of key k's history.
Admits(k, i, j) == Cardinality({m \in i..j : log[k][m].ok})

\* Entries i..j of key k's history were all decided at one clock reading.
SameInstant(k, i, j) == log[k][j].at = log[k][i].at

\* goroutine t takes the deciding step of Allow in this transition.
Decides(t) == pc[t] = "update" /\ pc'[t] = "unlock"

\* ---- C1 ------------------------------------------------------------------
\* C1 (burst admission): counting from the call that creates a key's bucket,
\* of the calls for that key decided with no clock advance, call number n is
\* admitted exactly when n <= bucketSize; so the first bucketSize calls
\* return true and call bucketSize + 1 returns false.
C1_BurstAdmission ==
    \A k \in Keys : \A i \in 1..Len(log[k]) :
        log[k][i].fresh =>
            \A j \in i..Len(log[k]) :
                SameInstant(k, i, j) => (log[k][j].ok <=> (j - i + 1 <= bucketSize))

\* A burst of bucketSize + 1 calls on a fresh key with bucketSize >= 2.
C1_Witness ==
    \E k \in Keys : \E i \in 1..Len(log[k]) :
        /\ bucketSize >= 2
        /\ log[k][i].fresh
        /\ i + bucketSize <= Len(log[k])
        /\ SameInstant(k, i, i + bucketSize)
        /\ ~log[k][i + bucketSize].ok

\* ---- C2 ------------------------------------------------------------------
\* C2 as claimed (admission bound): for every key and every window of its
\* history, the number of admitted calls is at most
\* bucketSize + rate * (length of the window), sweeper ticks included.
C2_AdmissionBound ==
    \A k \in Keys : \A i \in 1..Len(log[k]) : \A j \in i..Len(log[k]) :
        Admits(k, i, j) * Scale
            <= bucketSize * Scale + rate * (log[k][j].at - log[k][i].at)

\* The key's bucket was evicted and created again inside entries i+1..j.
EvictedWithin(k, i, j) == \E m \in (i + 1)..j : log[k][m].fresh

\* C2 as amended: the bound holds for every window in which the sweeper did
\* not evict the key's bucket, and for every window at all when the refill
\* of MaxAge is at least a full bucket (MaxAge * rate >= bucketSize).
C2_AdmissionBoundAmended ==
    \A k \in Keys : \A i \in 1..Len(log[k]) : \A j \in i..Len(log[k]) :
        (MaxAge * rate >= bucketSize * Scale \/ ~EvictedWithin(k, i, j)) =>
            Admits(k, i, j) * Scale
                <= bucketSize * Scale + rate * (log[k][j].at - log[k][i].at)

\* A window with an eviction inside and at least three admitted calls, in a
\* configuration where MaxAge refills a full bucket.
C2_Witness ==
    \E k \in Keys : \E i \in 1..Len(log[k]) : \E j \in i..Len(log[k]) :
        /\ MaxAge * rate >= bucketSize * Scale
        /\ EvictedWithin(k, i, j)
        /\ Admits(k, i, j) >= 3

\* ---- C3 ------------------------------------------------------------------
\* C3 (race-free decrement): when the call that creates a key's bucket races
\* with other callers of the same key, then of the n calls decided for the
\* key with no clock advance exactly min(n, bucketSize) are admitted, and
\* the tokens left are bucketSize minus the admitted calls: no token is
\* spent twice.
C3_RaceFreeDecrement ==
    \A k \in Keys : \A i \in 1..Len(log[k]) :
        (log[k][i].fresh /\ log[k][i].conc >= 1) =>
            \A j \in i..Len(log[k]) :
                SameInstant(k, i, j) =>
                    /\ Admits(k, i, j) =
                          (IF j - i + 1 <= bucketSize THEN j - i + 1 ELSE bucketSize)
                    /\ log[k][j].left = (bucketSize - Admits(k, i, j)) * Scale

\* More concurrent callers than tokens: the creating call raced with at
\* least bucketSize others, and bucketSize + 1 calls have been decided.
C3_Witness ==
    \E k \in Keys : \E i \in 1..Len(log[k]) :
        /\ log[k][i].fresh
        /\ log[k][i].conc >= bucketSize
        /\ i + bucketSize <= Len(log[k])
        /\ SameInstant(k, i, i + bucketSize)

\* ---- C4 ------------------------------------------------------------------
\* C4 (token range): every bucket in the store holds between 0 and
\* bucketSize tokens.
C4_TokenRange ==
    \A k \in DOMAIN clients :
        /\ 0 <= clients[k].tokens
        /\ clients[k].tokens <= bucketSize * Scale

\* A call on an existing bucket whose unclamped refill exceeds bucketSize.
C4_Witness ==
    \E k \in DOMAIN clients : \E j \in 2..Len(log[k]) :
        /\ ~log[k][j].fresh
        /\ log[k][j - 1].left + (log[k][j].at - log[k][j - 1].at) * rate
              > bucketSize * Scale
        /\ j = Len(log[k])
        /\ clients[k].tokens = log[k][j].left

\* ---- C5 ------------------------------------------------------------------
\* C5 (lazy creation): a call that decides on a key with no bucket in the
\* store returns true and leaves a bucket for the key with
\* bucketSize - 1 tokens and lastRefill = now.
C5_LazyCreation ==
    [][\A t \in Threads :
          (Decides(t) /\ ip[t] \notin DOMAIN clients) =>
              /\ ret'[t] = TRUE
              /\ ip[t] \in DOMAIN clients'
              /\ clients'[ip[t]].tokens = (bucketSize - 1) * Scale
              /\ clients'[ip[t]].lastRefill = now]_vars

\* A call has just created a bucket at a time after 0, for a key that had a
\* bucket before (it was evicted).
C5_Witness ==
    \E t \in Threads :
        /\ pc[t] = "unlock"
        /\ Len(log[ip[t]]) >= 2
        /\ log[ip[t]][Len(log[ip[t]])].fresh
        /\ log[ip[t]][Len(log[ip[t]])].at = now
        /\ ~log[ip[t]][Len(log[ip[t]]) - 1].ok

\* ---- C6 ------------------------------------------------------------------
\* Tokens of key k's bucket after the refill due at the current time,
\* written out from the claim.
Refilled(k) ==
    LET sum == clients[k].tokens + (now - clients[k].lastRefill) * rate
    IN  IF sum > bucketSize * Scale THEN bucketSize * Scale ELSE sum

\* C6 (admit rule): a call that decides on an existing bucket returns true
\* exactly when the refilled tokens r are at least one token, and an
\* admitted call leaves tokens = r - 1 and lastRefill = now.
C6_AdmitRule ==
    [][\A t \in Threads :
          (Decides(t) /\ ip[t] \in DOMAIN clients) =>
              /\ ret'[t] <=> (Refilled(ip[t]) >= Scale)
              /\ ret'[t] =>
                    /\ clients'[ip[t]].tokens = Refilled(ip[t]) - Scale
                    /\ clients'[ip[t]].lastRefill = now]_vars

\* An admitted call on an existing bucket that had less than one token
\* before the refill.
C6_Witness ==
    \E k \in Keys : \E j \in 2..Len(log[k]) :
        /\ ~log[k][j].fresh
        /\ log[k][j].ok
        /\ log[k][j - 1].left < Scale
        /\ log[k][j].left > 0

\* ---- C7 ------------------------------------------------------------------
\* C7 (denial effect): a call that returns false was made on an existing
\* bucket and changes the store only by writing the refilled tokens and
\* lastRefill = now into that bucket; the tokens do not go down, no bucket
\* is created or removed and no other key is touched.
C7_DenialEffect ==
    [][\A t \in Threads :
          (Decides(t) /\ ~ret'[t]) =>
              /\ ip[t] \in DOMAIN clients
              /\ clients' = [clients EXCEPT ![ip[t]] =
                                [tokens |-> Refilled(ip[t]), lastRefill |-> now]]
              /\ clients'[ip[t]].tokens >= clients[ip[t]].tokens]_vars

\* A denied call that applied a non-zero refill, in a store with another key.
C7_Witness ==
    \E t \in Threads :
        /\ pc[t] = "unlock"
        /\ ~ret[t]
        /\ Len(log[ip[t]]) >= 2
        /\ log[ip[t]][Len(log[ip[t]])].left > log[ip[t]][Len(log[ip[t]]) - 1].left
        /\ \E b \in DOMAIN clients : b # ip[t]

\* ---- C8 ------------------------------------------------------------------
\* Whole tokens in v (v in 1/Scale tokens).
Whole(v) == v \div Scale

\* C8 as claimed (refill linearity): after a denied call for a key, of the
\* calls decided for it at one later clock reading, dt after the denial,
\* call number n is admitted exactly when n <= min(bucketSize, floor(dt * rate)).
C8_RefillLinearity ==
    \A k \in Keys : \A i \in 1..Len(log[k]) :
        (~log[k][i].ok /\ i < Len(log[k])) =>
            \A j \in (i + 1)..Len(log[k]) :
                SameInstant(k, i + 1, j) =>
                    LET dt  == log[k][i + 1].at - log[k][i].at
                        cnt == IF Whole(dt * rate) > bucketSize
                               THEN bucketSize ELSE Whole(dt * rate)
                    IN  log[k][j].ok <=> (j - i <= cnt)

\* C8 as amended: the fraction of a token left at the denial counts too.
\* Call number n is admitted exactly when
\* n <= floor(min(bucketSize, left + dt * rate)), where left is the tokens
\* the denied call left; and when the sweeper evicted the bucket in between,
\* exactly when n <= bucketSize.
C8_RefillLinearityAmended ==
    \A k \in Keys : \A i \in 1..Len(log[k]) :
        (~log[k][i].ok /\ i < Len(log[k])) =>
            \A j \in (i + 1)..Len(log[k]) :
                SameInstant(k, i + 1, j) =>
                    LET dt  == log[k][i + 1].at - log[k][i].at
                        sum == log[k][i].left + dt * rate
                        cnt == IF log[k][i + 1].fresh \/ sum > bucketSize * Scale
                               THEN bucketSize ELSE Whole(sum)
                    IN  log[k][j].ok <=> (j - i <= cnt)

\* A denial that left a fraction of a token, then a clock advance, then an
\* admitted call followed by a denied one.
C8_Witness ==
    \E k \in Keys : \E i \in 1..Len(log[k]) :
        /\ ~log[k][i].ok
        /\ log[k][i].left > 0
        /\ i + 2 <= Len(log[k])
        /\ log[k][i + 1].at > log[k][i].at
        /\ ~log[k][i + 1].fresh
        /\ log[k][i + 1].ok
        /\ SameInstant(k, i + 1, i + 2)
        /\ ~log[k][i + 2].ok

\* ---- C9 ------------------------------------------------------------------
\* C9 (clamping): the tokens of a bucket after a refill never exceed
\* bucketSize; and after a clock advance long enough to refill a key's
\* bucket (left + dt * rate >= bucketSize), or after which the sweeper
\* evicted it, of the calls decided for the key at that clock reading call
\* number n is admitted exactly when n <= bucketSize.
C9_Clamping ==
    \A k \in Keys : \A i \in 1..Len(log[k]) :
        /\ log[k][i].left + (IF log[k][i].ok THEN Scale ELSE 0) <= bucketSize * Scale
        /\ i < Len(log[k]) =>
              LET dt == log[k][i + 1].at - log[k][i].at IN
              (log[k][i + 1].fresh \/ log[k][i].left + dt * rate >= bucketSize * Scale) =>
                  \A j \in (i + 1)..Len(log[k]) :
                      SameInstant(k, i + 1, j) => (log[k][j].ok <=> (j - i <= bucketSize))

\* A bucket that was not evicted, whose unclamped refill exceeds bucketSize,
\* followed by bucketSize admitted calls and a denied one.
C9_Witness ==
    \E k \in Keys : \E i \in 1..Len(log[k]) :
        /\ i + bucketSize + 1 <= Len(log[k])
        /\ ~log[k][i + 1].fresh
        /\ log[k][i].left + (log[k][i + 1].at - log[k][i].at) * rate
              > bucketSize * Scale
        /\ SameInstant(k, i + 1, i + bucketSize + 1)
        /\ ~log[k][i + bucketSize + 1].ok

\* ---- C10 -----------------------------------------------------------------
\* The results of key k's calls follow from k's own history alone: entry i
\* is what a bucket used by k only yields at that time.
OwnHistory(k) ==
    \A i \in 1..Len(log[k]) :
        IF log[k][i].fresh
        THEN log[k][i].ok /\ log[k][i].left = (bucketSize - 1) * Scale
        ELSE /\ i >= 2
             /\ LET sum == log[k][i - 1].left
                              + (log[k][i].at - log[k][i - 1].at) * rate
                    r   == IF sum > bucketSize * Scale THEN bucketSize * Scale ELSE sum
                IN  /\ log[k][i].ok <=> (r >= Scale)
                    /\ log[k][i].left = (IF r >= Scale THEN r - Scale ELSE r)

\* C10 (key isolation): a deciding Allow(A) step leaves every key B # A as
\* it was (present or absent, tokens, lastRefill, history); and the results
\* of every key's calls are those of a bucket used by that key alone.
C10_KeyIsolation ==
    /\ [][\A t \in Threads : Decides(t) =>
             \A b \in Keys \ {ip[t]} :
                 /\ (b \in DOMAIN clients') <=> (b \in DOMAIN clients)
                 /\ b \in DOMAIN clients => clients'[b] = clients[b]
                 /\ log'[b] = log[b]]_vars
    /\ [](\A k \in Keys : OwnHistory(k))

\* Key A is exhausted (a denied call), while key B, with a bucket and at
\* least two calls, has just been admitted at the same clock reading.
C10_Witness ==
    \E a \in Keys : \E b \in Keys \ {a} :
        /\ Len(log[a]) >= 2
        /\ ~log[a][Len(log[a])].ok
        /\ Len(log[b]) >= 2
        /\ log[b][Len(log[b])].ok
        /\ log[b][Len(log[b])].at = log[a][Len(log[a])].at
        /\ a \in DOMAIN clients /\ b \in DOMAIN clients

\* ---- C11 -----------------------------------------------------------------
\* The cleanup goroutine runs cleanupStale's loop in this transition.
Sweeps == spc = "sweep" /\ spc' = "unlock"

\* C11 (sweep tick): one run of the sweep at time now removes exactly the
\* buckets whose lastRefill is strictly before now - MaxAge; every other
\* bucket, one with lastRefill = now - MaxAge included, stays with tokens
\* and lastRefill unchanged.
C11_SweepTick ==
    [][Sweeps =>
          /\ DOMAIN clients' =
                {k \in DOMAIN clients : clients[k].lastRefill >= now - MaxAge}
          /\ \A k \in DOMAIN clients' : clients'[k] = clients[k]]_vars

\* After a sweep: one key was removed, and a bucket whose lastRefill is
\* exactly now - MaxAge is still in the store.
C11_Witness ==
    /\ spc = "unlock"
    /\ \E k \in DOMAIN clients : clients[k].lastRefill = now - MaxAge
    /\ \E k \in Keys \ DOMAIN clients :
          /\ Len(log[k]) >= 1
          /\ log[k][Len(log[k])].at < now - MaxAge

\* ---- C12 -----------------------------------------------------------------
\* Key k had a bucket and the sweeper removed it.
Evicted(k) == k \notin DOMAIN clients /\ Len(log[k]) >= 1

\* C12 (re-admission after eviction): the next call decided for a key whose
\* bucket the sweeper removed returns true and leaves bucketSize - 1 tokens,
\* whatever the bucket held when it was evicted.
C12_ReadmissionAfterEviction ==
    [][\A t \in Threads :
          (Decides(t) /\ Evicted(ip[t])) =>
              /\ ret'[t] = TRUE
              /\ ip[t] \in DOMAIN clients'
              /\ clients'[ip[t]].tokens = (bucketSize - 1) * Scale
              /\ log'[ip[t]][Len(log'[ip[t]])].ok]_vars

\* A key whose last call before the eviction was denied (less than one
\* token left) has been admitted again.
C12_Witness ==
    \E k \in DOMAIN clients : \E i \in 2..Len(log[k]) :
        /\ log[k][i].fresh
        /\ log[k][i].ok
        /\ ~log[k][i - 1].ok
        /\ log[k][i - 1].left < Scale
        /\ i = Len(log[k])
        /\ clients[k].tokens = (bucketSize - 1) * Scale

\* ---- C13 -----------------------------------------------------------------
\* Key k's bucket is in the store and older than MaxAge.
Idle(k) == k \in DOMAIN clients /\ clients[k].lastRefill < now - MaxAge

\* C13 (eventual eviction): a bucket older than MaxAge is eventually removed
\* by the sweeper, unless an Allow call for its key refreshes it first or the
\* limiter is shut down.
C13_EventualEviction ==
    \A k \in Keys :
        Idle(k) ~> (k \notin DOMAIN clients \/ ~Idle(k) \/ ~cleanupRunning)

\* The sweeper removed an idle bucket of a limiter that is not shut down.
C13_Witness ==
    \E k \in Keys : Evicted(k) /\ cleanupRunning /\ spc = "unlock"

\* ---- C14 -----------------------------------------------------------------
\* C14 as claimed (Shutdown stops eviction): once Shutdown has returned, no
\* bucket is removed from the store, also not by a tick that was pending or
\* in flight when Shutdown was called.
C14_NoEvictionAfterShutdown ==
    [][~cleanupRunning => DOMAIN clients \subseteq DOMAIN clients']_vars

\* ---- C15 -----------------------------------------------------------------
\* The cleanup goroutine waits for a tick that cannot come: the ticker is
\* stopped and its channel, which nothing closes, is empty.  No step of the
\* goroutine is enabled from here on, and the range loop has no other exit.
SweeperStuck == ~cleanupRunning /\ cleanupC = 0 /\ spc = "recv"

\* C15 as claimed (sweeper termination): after Shutdown the cleanup goroutine
\* never stays blocked forever waiting for a tick.
C15_SweeperTerminates == ~SweeperStuck

\* ---- C16 -----------------------------------------------------------------
\* The operations inside the critical section of rl.mu.
InCS == {t \in Threads : pc[t] \in {"lookup", "update", "unlock"}}
           \cup (IF spc \in {"sweep", "unlock"} THEN {Sweeper} ELSE {})

\* C16 (mutual exclusion): at most one of the Allow calls and the sweep is
\* inside the critical section, it is the holder of the lock, and the store
\* changes only in a step of the lock's holder.
C16_MutualExclusion ==
    /\ [](Cardinality(InCS) <= 1 /\ \A h \in InCS : mu = h)
    /\ [][clients' # clients => (mu # 0 /\ mu \in InCS)]_vars

\* An Allow call is inside the critical section while the other callers and
\* the sweep wait for the lock.
C16_Witness ==
    /\ \E t \in Threads :
          /\ pc[t] = "update"
          /\ \A u \in Threads \ {t} : pc[u] = "lock"
    /\ spc = "lock"

\* ---- C17 -----------------------------------------------------------------
\* The sequential token bucket: Allow(k) run alone on store st at time now.
SeqExists(st, k) == k \in DOMAIN st
SeqTokens(st, k) ==
    LET sum == st[k].tokens + (now - st[k].lastRefill) * rate
    IN  IF sum > bucketSize * Scale THEN bucketSize * Scale ELSE sum
SeqResult(st, k) == IF SeqExists(st, k) THEN SeqTokens(st, k) >= Scale ELSE TRUE
SeqStore(st, k) ==
    [x \in DOMAIN st \cup {k} |->
        IF x # k THEN st[x]
        ELSE IF ~SeqExists(st, k)
             THEN [tokens |-> (bucketSize - 1) * Scale, lastRefill |-> now]
             ELSE [tokens |-> IF SeqTokens(st, k) >= Scale
                              THEN SeqTokens(st, k) - Scale ELSE SeqTokens(st, k),
                   lastRefill |-> now]]

\* The sequential sweep run alone on store st at time now.
SeqSweep(st) ==
    [x \in {y \in DOMAIN st : st[y].lastRefill >= now - MaxAge} |-> st[x]]

\* C17 (linearizability): every step of the concurrent limiter either leaves
\* the store alone, or is the whole sequential Allow or the whole sequential
\* sweep applied to the store as it is, with the sequential result; the
\* operations take effect one at a time, in the order they held the lock.
C17_Linearizable ==
    [][/\ \A t \in Threads :
             Decides(t) => /\ clients' = SeqStore(clients, ip[t])
                           /\ ret'[t] = SeqResult(clients, ip[t])
                           /\ mu = t
       /\ Sweeps => (clients' = SeqSweep(clients) /\ mu = Sweeper)
       /\ (~Sweeps /\ \A t \in Threads : ~Decides(t)) => clients' = clients]_vars

\* A call is decided on a bucket while another caller of the same key, who
\* entered Allow before the bucket's last change, still waits for the lock.
C17_Witness ==
    \E t \in Threads : \E u \in Threads \ {t} :
        /\ pc[t] = "unlock"
        /\ pc[u] = "lock"
        /\ ip[u] = ip[t]
        /\ ~ret[t]
        /\ spc = "lock"

\* ---- C18 -----------------------------------------------------------------
\* Some goroutine inside Allow or inside the sweep can take its next step.
Progress ==
    \/ \E t \in Threads : ENABLED AllowLock(t)
    \/ \E t \in Threads : ENABLED AllowLookup(t)
    \/ \E t \in Threads : ENABLED AllowUpdate(t)
    \/ \E t \in Threads : ENABLED AllowReturn(t)
    \/ ENABLED SweepLock
    \/ ENABLED SweepBody
    \/ ENABLED SweepUnlock

\* C18 (Allow is total, the lock is always released): the lock is held only
\* by an operation that is still running, so whenever an Allow call or a
\* sweep is in progress one of them can step (no deadlock); and every call
\* started is eventually back at its caller, with its result in the history.
C18_AllowTotal ==
    /\ [](/\ \A t \in Threads : mu = t => pc[t] \in {"lookup", "update", "unlock"}
          /\ mu = Sweeper => spc \in {"sweep", "unlock"}
          /\ ((\E t \in Threads : pc[t] # "idle") \/ spc \in {"lock", "sweep", "unlock"})
                => Progress)
    /\ \A t \in Threads : (pc[t] = "lock") ~> (pc[t] = "idle")

\* A caller is about to return false while another caller and the sweep
\* wait for the lock it holds.
C18_Witness ==
    \E t \in Threads : \E u \in Threads \ {t} :
        /\ pc[t] = "unlock" /\ mu = t /\ ~ret[t]
        /\ pc[u] = "lock"
        /\ spc = "lock"
        /\ Decided >= 2

\* ---- C19 -----------------------------------------------------------------
\* The handler of goroutine t acts on Allow's result in this transition.
Answers(t) == pc[t] = "unlock" /\ pc'[t] = "served"

\* C19 (middleware decision): a request with a non-empty key has called
\* Allow exactly once when the handler acts on the result; on false the
\* answer is 429 with Content-Type application/json and the rate-limit body
\* and the next handler is not invoked; on true the next handler is invoked
\* exactly once with the request as it came and the middleware writes no
\* answer of its own.  No request is both answered 429 and forwarded.
C19_MiddlewareDecision ==
    /\ [][\A t \in Threads : Answers(t) =>
             /\ resp[t].req # EmptyKey
             /\ resp[t].req = ip[t]
             /\ resp[t].allow = 1 /\ resp'[t].allow = 1
             /\ ~ret[t] =>
                   /\ resp'[t].status = 429
                   /\ resp'[t].ctype = "application/json"
                   /\ resp'[t].body =
                         "{\"error\":\"Rate limit exceeded, please try again later\"}"
                   /\ resp'[t].next = 0
             /\ ret[t] =>
                   /\ resp'[t].next = 1
                   /\ resp'[t].fwd = resp[t].req
                   /\ resp'[t].status = 0]_vars
    /\ [](\A t \in Threads :
             /\ resp[t].next <= 1
             /\ resp[t].allow <= 1
             /\ resp[t].status = 429 => resp[t].next = 0
             /\ resp[t].next = 1 => resp[t].allow = 1)

\* One request has been answered 429 while another, for the same key, has
\* been forwarded.
C19_Witness ==
    \E t \in Threads : \E u \in Threads \ {t} :
        /\ pc[t] = "served" /\ resp[t].status = 429
        /\ pc[u] = "served" /\ resp[u].next = 1
        /\ resp[t].req = resp[u].req

\* ---- C20 -----------------------------------------------------------------
\* C20 (key-extraction failure): a request whose key is empty is answered
\* with status 500 in the step that starts it, without a call of Allow (the
\* store, the lock and the history are untouched) and without the next
\* handler; no bucket for the empty key ever exists, and the answer is not
\* the 429 denial.
C20_KeyExtractionFailure ==
    /\ [][\A t \in Threads :
             (pc[t] = "idle" /\ pc'[t] # "idle" /\ resp'[t].req = EmptyKey) =>
                 /\ pc'[t] = "served"
                 /\ resp'[t].status = 500
                 /\ resp'[t].status # 429
                 /\ resp'[t].allow = 0
                 /\ resp'[t].next = 0
                 /\ clients' = clients /\ log' = log /\ mu' = mu]_vars
    /\ [](EmptyKey \notin DOMAIN clients)
    /\ [](\A t \in Threads : resp[t].status = 500 => (resp[t].allow = 0 /\ resp[t].next = 0))

\* A request with an empty key has been answered 500 while the store holds
\* buckets and another request is inside Allow.
C20_Witness ==
    \E t \in Threads : \E u \in Threads \ {t} :
        /\ pc[t] = "served" /\ resp[t].status = 500 /\ resp[t].req = EmptyKey
        /\ pc[u] = "update"
        /\ DOMAIN clients # {}

\* ---- C21 -----------------------------------------------------------------
\* s without its leading and trailing spaces.
Trimmed(s) ==
    LET inner == {i \in 1..Len(s) : s[i] # " "}
    IN  IF inner = {} THEN << >>
        ELSE SubSeq(s, CHOOSE i \in inner : \A j \in inner : i <= j,
                       CHOOSE i \in inner : \A j \in inner : i >= j)

\* The first entry of a comma-separated value: its longest comma-free prefix.
FirstEntry(s) ==
    SubSeq(s, 1, CHOOSE n \in 0..Len(s) :
                    /\ \A i \in 1..n : s[i] # ","
                    /\ n = Len(s) \/ s[n + 1] = ",")

\* C21 as claimed (client-key derivation): the key is the trimmed first entry
\* of X-Forwarded-For when that is not empty; otherwise the value of
\* X-Real-IP when that is not empty (taken whole, or as its first entry);
\* otherwise it comes from the peer address.  It is the first non-empty
\* candidate in that order.
C21_KeyDerivation ==
    httpReq # NoRequest =>
        LET first == Trimmed(FirstEntry(httpReq.xff)) IN
        IF first # << >> THEN clientKey = first
        ELSE IF httpReq.xreal # << >>
             THEN clientKey \in {httpReq.xreal, FirstEntry(httpReq.xreal),
                                 Trimmed(FirstEntry(httpReq.xreal))}
        ELSE /\ clientKey # << >>
             /\ clientKey = SubSeq(httpReq.remote, 1, Len(clientKey))

\* ---- C22 -----------------------------------------------------------------
\* addr without its trailing port: what stands before its last colon.
StripPort(addr) ==
    SubSeq(addr, 1, (CHOOSE i \in 1..Len(addr) :
                        addr[i] = ":" /\ \A j \in (i + 1)..Len(addr) : addr[j] # ":") - 1)

\* C22 as claimed (peer-address fallback): for a request without proxy
\* headers the key is the peer address without its trailing port, whatever
\* the form of the address; so requests from different peer hosts have
\* different keys.
C22_PeerFallback ==
    /\ \A a \in DOMAIN peerKeys : peerKeys[a] = StripPort(a)
    /\ \A a \in DOMAIN peerKeys : \A b \in DOMAIN peerKeys :
          StripPort(a) # StripPort(b) => peerKeys[a] # peerKeys[b]

\* ---- C23 -----------------------------------------------------------------
\* C23 as claimed (configuration errors fail fast): a limiter constructed
\* with a rate that is not positive or a bucket size below 1 never answers an
\* Allow call.
C23_FailFast ==
    (rate <= 0 \/ bucketSize < 1) =>
        /\ Decided = 0
        /\ \A t \in Threads : pc[t] # "unlock"

\* ---- C24 -----------------------------------------------------------------
\* The stages behind the rate limiter: routing, sanitization, validation and
\* file serving.
Downstream == {"apiHandler", "SanitizeMiddleware", "ValidationHandler", "mux",
               "FileServer", "ServeFile", "NotFound"}

C28_LoggingOutermost ==
    \A t \in Threads :
        pc[t] # "idle" =>
            /\ resp[t].stages # << >>
            /\ resp[t].stages[1] = "LoggingMiddleware"

\* ---- C25 -----------------------------------------------------------------
\* The limiter that never evicts, run on the call times of key k's history:
\* the tokens it has before deciding call i, and the tokens it leaves.
RECURSIVE NoSweepLeft(_, _)
NoSweepTokens(k, i) ==
    LET sum == NoSweepLeft(k, i - 1) + (log[k][i].at - log[k][i - 1].at) * rate
    IN  IF sum > bucketSize * Scale THEN bucketSize * Scale ELSE sum
NoSweepLeft(k, i) ==
    IF i = 1 THEN (bucketSize - 1) * Scale
    ELSE IF NoSweepTokens(k, i) >= Scale THEN NoSweepTokens(k, i) - Scale
         ELSE NoSweepTokens(k, i)
NoSweepOk(k, i) == i = 1 \/ NoSweepTokens(k, i) >= Scale

\* C25 (eviction is only space reclamation): when MaxAge refills a full
\* bucket (MaxAge * rate >= bucketSize), every Allow result of every key,
\* with sweeps interleaved at any points, is the result the limiter that
\* never evicts gives for the same calls at the same times.
C25_EvictionUnobservable ==
    MaxAge * rate >= bucketSize * Scale =>
        \A k \in Keys : \A i \in 1..Len(log[k]) : log[k][i].ok <=> NoSweepOk(k, i)

\* In such a configuration a key was evicted after a denied call and
\* created again, and its next call at the same time was denied.
C25_Witness ==
    /\ MaxAge * rate >= bucketSize * Scale
    /\ \E k \in Keys : \E i \in 3..Len(log[k]) :
          /\ ~log[k][i - 1].ok
          /\ log[k][i].fresh
          /\ i < Len(log[k])
          /\ ~log[k][i + 1].ok

\* ---- C26 -----------------------------------------------------------------
\* C26 (store domain): every key of the store has been decided on by Allow;
\* a key enters the store only in the deciding step of an Allow call for it
\* that found it absent (and returns true), and leaves it only in a sweep;
\* a denial, a call of Shutdown and a 429 or 500 answer of the middleware
\* leave the keys of the store as they are.
C26_StoreDomain ==
    /\ [](DOMAIN clients \subseteq {k \in Keys : Len(log[k]) >= 1})
    /\ [][/\ \A k \in DOMAIN clients' \ DOMAIN clients :
               \E t \in Threads : Decides(t) /\ ip[t] = k /\ ret'[t]
          /\ (DOMAIN clients \ DOMAIN clients' # {}) => Sweeps
          /\ \A t \in Threads :
               (Decides(t) /\ ~ret'[t]) => DOMAIN clients' = DOMAIN clients
          /\ (cleanupRunning /\ ~cleanupRunning') => DOMAIN clients' = DOMAIN clients
          /\ \A t \in Threads :
               (/\ pc[t] # "served"
                /\ pc'[t] = "served"
                /\ resp'[t].status \in {429, 500}) => DOMAIN clients' = DOMAIN clients]_vars

\* After Shutdown: one key was passed to Allow and has been swept away, the
\* other is in the store, one request has just been answered 429 and
\* another 500.
C26_Witness ==
    /\ ~cleanupRunning
    /\ \E k \in Keys \ DOMAIN clients : Len(log[k]) >= 1
    /\ DOMAIN clients # {}
    /\ \E t \in Threads : \E u \in Threads \ {t} :
          /\ pc[t] = "served" /\ resp[t].status = 429
          /\ pc[u] = "served" /\ resp[u].status = 500

\* ---- C27 -----------------------------------------------------------------
\* C27 as claimed (Shutdown frame): a call of Shutdown leaves the store, the
\* configuration and the lock as they are, and the Allow calls made after
\* Shutdown return what they return on a limiter whose sweeper never runs:
\* the results of the token bucket that never evicts, on the same calls.
C27_ShutdownFrame ==
    /\ [][(\A t \in Threads : pc'[t] = pc[t]) /\ spc' = spc /\ now' = now
             => (clients' = clients /\ rate' = rate /\ bucketSize' = bucketSize
                    /\ mu' = mu /\ log' = log)]_vars
    /\ [](\A k \in Keys : \A i \in 1..Len(log[k]) :
             log[k][i].ok <=> NoSweepOk(k, i))

\* ---- C29 -----------------------------------------------------------------
\* The refill applied by entry m of key k's history was cut at bucketSize.
Clamped(k, m) ==
    log[k][m - 1].left + (log[k][m].at - log[k][m - 1].at) * rate > bucketSize * Scale

\* C29 (token conservation): over every run of calls i+1..j of a key during
\* which its bucket was neither evicted nor clamped, the tokens left after
\* call j are the tokens left after call i, plus rate times the time from
\* call i to call j, minus one token per admitted call; a denied call in
\* the run takes nothing away, fractions of a token included.
C29_TokenConservation ==
    \A k \in Keys : \A i \in 1..Len(log[k]) : \A j \in (i + 1)..Len(log[k]) :
        (\A m \in (i + 1)..j : ~log[k][m].fresh /\ ~Clamped(k, m)) =>
            log[k][j].left = log[k][i].left + rate * (log[k][j].at - log[k][i].at)
                                - Scale * Admits(k, i + 1, j)

\* A run of three calls at three clock readings: a denied call that left a
\* fraction of a token, then an admitted call paid with that fraction and
\* the next refill.
C29_Witness ==
    \E k \in Keys : \E i \in 1..Len(log[k]) :
        /\ i + 2 <= Len(log[k])
        /\ \A m \in (i + 1)..(i + 2) : ~log[k][m].fresh /\ ~Clamped(k, m)
        /\ ~log[k][i + 1].ok
        /\ log[k][i + 1].left > 0
        /\ log[k][i + 1].left < Scale
        /\ log[k][i + 1].at > log[k][i].at
        /\ log[k][i + 2].at > log[k][i + 1].at
        /\ log[k][i + 2].ok
        /\ (log[k][i + 2].at - log[k][i + 1].at) * rate < Scale

\* ---- C30 -----------------------------------------------------------------
\* C30 (lastRefill is the time of the key's latest Allow call): every
\* bucket's lastRefill is at most now and is the time of the last call
\* decided for its key, admitted or denied; the times of a key's calls, and
\* so the lastRefill of its bucket, never go down; and a sweep leaves in the
\* store every key whose last call, even a denied one, is at most MaxAge old.
C30_LastRefill ==
    /\ [](\A k \in DOMAIN clients :
             /\ clients[k].lastRefill <= now
             /\ Len(log[k]) >= 1
             /\ clients[k].lastRefill = log[k][Len(log[k])].at)
    /\ [](\A k \in Keys : \A i \in 1..Len(log[k]) : \A j \in i..Len(log[k]) :
             log[k][i].at <= log[k][j].at)
    /\ [][/\ \A k \in DOMAIN clients \cap DOMAIN clients' :
                clients'[k].lastRefill >= clients[k].lastRefill
          /\ Sweeps =>
                \A k \in DOMAIN clients :
                    now - log[k][Len(log[k])].at <= MaxAge => k \in DOMAIN clients']_vars

\* A sweep has just left a bucket in the store that was created more than
\* MaxAge ago and whose only later call, exactly MaxAge ago, was denied.
C30_Witness ==
    /\ spc = "unlock"
    /\ \E k \in DOMAIN clients :
          /\ Len(log[k]) = 2
          /\ log[k][1].at < now - MaxAge
          /\ ~log[k][2].ok
          /\ ~log[k][2].fresh
          /\ log[k][2].at = now - MaxAge
          /\ clients[k].lastRefill = now - MaxAge

\* ---- C31 -----------------------------------------------------------------
\* C31 (deterministic classification): ValidateCard is a function of its
\* input: all the calls made on one card number return the same CardInfo,
\* in particular the same network, also when the number matches the
\* patterns of more than one network.
C31_Deterministic ==
    \A i \in 1..Len(cardInfos) : \A j \in 1..Len(cardInfos) :
        cardInfos[i] = cardInfos[j]

\* ---- C32 -----------------------------------------------------------------
\* The digits of a string, and the value of a digit.
DigitsOf(s) == SelectSeq(s, LAMBDA c : c \in DigitChars)
ValueOf(c)  == CHOOSE v \in 0..9 : DigitSeq[v + 1] = c

\* The Luhn sum of a digit string d: its digits are counted from the right,
\* the rightmost being number 1, and those with an even number are doubled,
\* less 9 when the double is above 9.
LuhnSum(d) ==
    LET Counted(p) == LET v == ValueOf(d[Len(d) - p + 1])
                      IN  IF p % 2 = 1 THEN v
                          ELSE IF 2 * v > 9 THEN 2 * v - 9 ELSE 2 * v
        RECURSIVE Upto(_)
        Upto(p) == IF p = 0 THEN 0 ELSE Counted(p) + Upto(p - 1)
    IN  Upto(Len(d))

\* C32 (Luhn check): for a card number of at least two digits Valid is true
\* exactly when the Luhn sum of its digits is divisible by 10; for fewer
\* than two digits ValidateCard reports Valid = false.
C32_LuhnCheck ==
    \A i \in 1..Len(cardInfos) :
        LET d == DigitsOf(cardReq.card_number.s)
        IN  cardInfos[i].Valid = (Len(d) >= 2 /\ LuhnSum(d) % 10 = 0)

\* A valid number of odd length whose doubled digit is reduced by 9.
C32_Witness ==
    /\ cardInfos # << >>
    /\ cardInfos[1].Valid
    /\ cardReq.card_number.s = <<"0", "5", "9">>

\* ---- C33 -----------------------------------------------------------------
\* C33 (every well-formed request is answered): a request with method GET
\* or POST and a JSON body whose card_number is a non-empty string, of any
\* length, is served without a runtime failure and answered with status 200
\* and the validation result.
C33_AnswersWellFormed ==
    (/\ apiResp.state # "none"
     /\ cardReq.method \in {"GET", "POST"}
     /\ cardReq.json
     /\ cardReq.card_number.kind = "string"
     /\ Len(cardReq.card_number.s) > 0)
    => (/\ apiResp.state = "done"
        /\ apiResp.status = 200
        /\ apiResp.body.CardLength = Len(DigitsOf(cardReq.card_number.s)))

\* ---- C34 -----------------------------------------------------------------
\* MM/YY with a month from 01 to 12, and three or four digits.
MonthYear(s) ==
    /\ Len(s) = 5
    /\ s[3] = "/"
    /\ \A i \in {1, 2, 4, 5} : s[i] \in DigitChars
    /\ 10 * ValueOf(s[1]) + ValueOf(s[2]) \in 1..12
SecurityCode(s) == DigitsOf(s) = s /\ Len(s) \in {3, 4}

\* The request has a field the sanitizer refuses: more than 19 digits in a
\* card_number string, an expiry_date string that is not MM/YY, or a cvv
\* string that is not three or four digits.
BadField ==
    \/ /\ cardReq.card_number.kind = "string"
       /\ Len(DigitsOf(cardReq.card_number.s)) > 19
    \/ cardReq.expiry_date.kind = "string" /\ ~MonthYear(cardReq.expiry_date.s)
    \/ cardReq.cvv.kind = "string" /\ ~SecurityCode(cardReq.cvv.s)

\* What is forwarded has, for a card_number string, the digits of the
\* original in their order, at most 19 of them.
ForwardedClean ==
    (sanResp.fwd /\ cardReq.card_number.kind = "string")
    => (/\ sanResp.body.card_number.kind = "string"
        /\ sanResp.body.card_number.s = DigitsOf(cardReq.card_number.s)
        /\ Len(sanResp.body.card_number.s) <= 19)

\* C34, as stated (sanitization): every forwarded request has a card_number
\* string of the original's digits, at most 19; and every request whose
\* JSON body has a refused field is answered with 400 and not forwarded.
C34_AsStated ==
    sanResp.state # "none"
    => (/\ ForwardedClean
        /\ (cardReq.json /\ BadField)
           => (sanResp.status = 400 /\ ~sanResp.fwd))

\* C34, amended (sanitization): every forwarded request has a card_number
\* string of the original's digits, at most 19; no request with a refused
\* field is forwarded; and such a request is answered with 400 when its
\* Content-Type contains application/json and its body is within
\* MaxRequestSize (with 415 or 413 otherwise).
C34_Sanitization ==
    sanResp.state # "none"
    => (/\ ForwardedClean
        /\ (cardReq.json /\ BadField) => ~sanResp.fwd
        /\ (/\ cardReq.json
            /\ BadField
            /\ cardReq.ctype \in {"application/json",
                                  "Application/JSON; charset=utf-8"}
            /\ ~cardReq.oversize)
           => sanResp.status = 400
        /\ (cardReq.json /\ BadField /\ sanResp.status # 400)
           => sanResp.status \in {413, 415})

\* A card number of 19 digits written with dashes is forwarded as its
\* 19 digits.
C34_Witness ==
    /\ sanResp.state = "done"
    /\ sanResp.fwd
    /\ Len(cardReq.card_number.s) > 19
    /\ Len(sanResp.body.card_number.s) = 19
    /\ cardReq.cvv.kind = "string"

\* ---- C35 -----------------------------------------------------------------
\* C35 (log masking): for a request of content type application/json whose
\* JSON body has a string card_number of more than 6 characters, of any
\* length, the logging handler does not fail, logs the card number as its
\* first 6 characters, asterisks and its last 4 characters, and calls the
\* next handler exactly once.
C35_LogMasking ==
    (/\ logResp.state # "none"
     /\ cardReq.ctype = "application/json"
     /\ cardReq.json
     /\ cardReq.card_number.kind = "string"
     /\ Len(cardReq.card_number.s) > 6)
    => LET c == cardReq.card_number.s
           m == logResp.logged.card_number.s
           k == Len(m) - 10
       IN  /\ logResp.state = "done"
           /\ logResp.next = 1
           /\ logResp.logged.has
           /\ k >= 0
           /\ m = [i \in 1..Len(m) |->
                     IF i <= 6 THEN c[i]
                     ELSE IF i <= 6 + k THEN "*"
                     ELSE c[Len(c) - (Len(m) - i)]]

====
